---- MODULE Spec2Model ----
(***************************************************************************)
(* Selector-driven traversal of go-ipld-prime (package traversal).         *)
(* The recursion of traverseInformatively is modelled with an explicit     *)
(* stack of frames; every call the engine makes on a collaborator          *)
(* (visitor, selector.Explore, iterator Next, Link.Load) is appended to    *)
(* the event log.                                                          *)
(***************************************************************************)
EXTENDS Integers, Sequences, FiniteSets, TLC

\* Deepest recursion the model follows (the engine itself has no limit).
MaxDepth == 5

(***************************************************************************)
(* Nodes (ipld.Node as the engine consumes it).                            *)
(*   kind    : the ReprKind                                                *)
(*   val     : the scalar payload in text form, the link id for a Link     *)
(*   entries : the (key node, value node) pairs in the node's own order    *)
(*   failAt  : the iterator step whose Next returns an error, 0 for never  *)
(***************************************************************************)
Scalar(kind, val) == [kind |-> kind, val |-> val, entries |-> <<>>, failAt |-> 0]
NullN == Scalar("Null", "")
BoolN(v) == Scalar("Bool", v)
IntN(v) == Scalar("Int", v)
FloatN(v) == Scalar("Float", v)
StrN(v) == Scalar("String", v)
BytesN(v) == Scalar("Bytes", v)
LinkN(id) == Scalar("Link", id)
KV(k, v) == [k |-> k, v |-> v]
MapN(entries) == [kind |-> "Map", val |-> "", entries |-> entries, failAt |-> 0]
FailingMap(entries, step) == [kind |-> "Map", val |-> "", entries |-> entries, failAt |-> step]
ListN(entries) == [kind |-> "List", val |-> "", entries |-> entries, failAt |-> 0]

\* k.AsString(): the string of a String node; the zero string (with an error
\* the caller drops) for every other kind.
AsString(k) == IF k.kind = "String" THEN k.val ELSE ""

\* The text form of a key, whatever its kind (what a lookup by segment compares).
KeyText(k) == k.val

(***************************************************************************)
(* Errors: fmt-style messages. NoErr is the nil error.                     *)
(***************************************************************************)
NoErr == [src |-> "nil", msg |-> ""]
VisitorErr == [src |-> "visitor", msg |-> "visitor refused"]
IterErr == [src |-> "iterator", msg |-> "iterator step failed"]
NotFoundErr == [src |-> "loader", msg |-> "block not found"]

(***************************************************************************)
(* Path: the sequence of segments; String() joins them with "/".           *)
(***************************************************************************)
EmptyPath == <<>>

RECURSIVE PathString(_)
PathString(p) ==
    IF Len(p) = 0 THEN ""
    ELSE IF Len(p) = 1 THEN p[1]
    ELSE PathString(SubSeq(p, 1, Len(p) - 1)) \o "/" \o p[Len(p)]

Quote(s) == "\"" \o s \o "\""

(***************************************************************************)
(* Selectors.                                                              *)
(***************************************************************************)
NilSel == [t |-> "nil"]
Matcher == [t |-> "Matcher"]
ExploreAll(next) == [t |-> "ExploreAll", next |-> next]
Field(name, sel) == [name |-> name, sel |-> sel]
ExploreFields(fields) == [t |-> "ExploreFields", fields |-> fields]
ExploreIndex(i, next) == [t |-> "ExploreIndex", i |-> i, next |-> next]
ExploreRange(lo, hi, next) == [t |-> "ExploreRange", lo |-> lo, hi |-> hi, next |-> next]
ExploreUnion(members) == [t |-> "ExploreUnion", members |-> members]
ExploreRecursiveEdge == [t |-> "ExploreRecursiveEdge"]
RecursiveAt(limit, sequence, cur) ==
    [t |-> "ExploreRecursive", limit |-> limit, sequence |-> sequence, cur |-> cur]
ExploreRecursive(limit, sequence) == RecursiveAt(limit, sequence, sequence)

\* The integer a segment stands for, -1 when it is not an index.
SegIndex(seg) ==
    CASE seg = "0" -> 0
      [] seg = "1" -> 1
      [] seg = "2" -> 2
      [] seg = "3" -> 3
      [] OTHER -> -1

RECURSIVE Decide(_, _)
Decide(s, n) ==
    CASE s.t = "Matcher" -> TRUE
      [] s.t = "ExploreUnion" -> \E i \in 1..Len(s.members) : Decide(s.members[i], n)
      [] s.t = "ExploreRecursive" -> Decide(s.cur, n)
      [] OTHER -> FALSE

\* The segment an index is written as.
IndexSeg(i) ==
    CASE i = 0 -> "0"
      [] i = 1 -> "1"
      [] i = 2 -> "2"
      [] i = 3 -> "3"
      [] OTHER -> "?"

\* s.Interests(): the finite list of segments the selector cares about, or
\* none (every child has to be offered to Explore).
RECURSIVE Interests(_)
Interests(s) ==
    CASE s.t = "ExploreAll" -> [finite |-> FALSE, segs |-> {}]
      [] s.t = "ExploreRange" -> [finite |-> FALSE, segs |-> {}]
      [] s.t = "ExploreFields" ->
            [finite |-> TRUE, segs |-> {s.fields[i].name : i \in 1..Len(s.fields)}]
      [] s.t = "ExploreIndex" -> [finite |-> TRUE, segs |-> {IndexSeg(s.i)}]
      [] s.t = "ExploreUnion" ->
            [finite |-> \A i \in 1..Len(s.members) : Interests(s.members[i]).finite,
             segs |-> UNION {Interests(s.members[i]).segs : i \in 1..Len(s.members)}]
      [] s.t = "ExploreRecursive" -> Interests(s.cur)
      [] OTHER -> [finite |-> TRUE, segs |-> {}]

RECURSIVE DropNil(_)
DropNil(ss) ==
    IF Len(ss) = 0 THEN <<>>
    ELSE IF Head(ss).t = "nil" THEN DropNil(Tail(ss))
    ELSE <<Head(ss)>> \o DropNil(Tail(ss))

\* Replaces the edge markers of a sub-selector by the recursive selector with
\* one crossing less; an edge met with no crossing left yields nil.
RECURSIVE Substitute(_, _, _)
Substitute(r, limit, sequence) ==
    CASE r.t = "nil" -> NilSel
      [] r.t = "ExploreRecursiveEdge" ->
            IF limit = 0 THEN NilSel ELSE ExploreRecursive(limit - 1, sequence)
      [] r.t = "ExploreUnion" ->
            LET sub == DropNil([i \in 1..Len(r.members) |->
                                  Substitute(r.members[i], limit, sequence)])
            IN  IF Len(sub) = 0 THEN NilSel ELSE ExploreUnion(sub)
      [] OTHER -> RecursiveAt(limit, sequence, r)

RECURSIVE Explore(_, _, _)
Explore(s, n, seg) ==
    CASE s.t = "ExploreAll" -> s.next
      [] s.t = "ExploreFields" ->
            IF \E i \in 1..Len(s.fields) : s.fields[i].name = seg
            THEN s.fields[CHOOSE i \in 1..Len(s.fields) : s.fields[i].name = seg].sel
            ELSE NilSel
      [] s.t = "ExploreIndex" -> IF SegIndex(seg) = s.i THEN s.next ELSE NilSel
      [] s.t = "ExploreRange" ->
            IF SegIndex(seg) >= s.lo /\ SegIndex(seg) < s.hi THEN s.next ELSE NilSel
      [] s.t = "ExploreUnion" ->
            LET sub == DropNil([i \in 1..Len(s.members) |-> Explore(s.members[i], n, seg)])
            IN  IF Len(sub) = 0 THEN NilSel ELSE ExploreUnion(sub)
      [] s.t = "ExploreRecursive" ->
            Substitute(Explore(s.cur, n, seg), s.limit, s.sequence)
      [] OTHER -> NilSel

(***************************************************************************)
(* The block store behind Link.Load: the node each link resolves to.       *)
(* A link outside the store fails to load.                                 *)
(***************************************************************************)
StoredLinks == {"L1", "L2", "Lcyc"}

Block(id) ==
    CASE id = "L1" -> MapN(<<KV(StrN("y"), IntN("7"))>>)
      [] id = "L2" -> IntN("9")
      [] id = "Lcyc" -> MapN(<<KV(StrN("next"), LinkN("Lcyc"))>>)
      [] OTHER -> NullN

\* lnk.Load(ctx, lnkCtx, nb, loader): the node and the error it returns.
Load(id) ==
    IF id \in StoredLinks
    THEN [node |-> Block(id), err |-> NoErr]
    ELSE [node |-> NullN, err |-> NotFoundErr]

(***************************************************************************)
(* The roots and selectors a traversal is started with.                    *)
(***************************************************************************)
Leaf(tag) == StrN(tag)
Tree1(tag) == MapN(<<KV(StrN("l"), Leaf(tag \o "l")), KV(StrN("r"), Leaf(tag \o "r"))>>)
Tree2(tag) == MapN(<<KV(StrN("l"), Tree1(tag \o "l")), KV(StrN("r"), Tree1(tag \o "r"))>>)
Tree3 == MapN(<<KV(StrN("l"), Tree2("l")), KV(StrN("r"), Tree2("r"))>>)

RootAB == MapN(<<KV(StrN("a"), IntN("1")), KV(StrN("b"), IntN("2"))>>)
RootList == ListN(<<KV(IntN("0"), IntN("10")), KV(IntN("1"), IntN("20")),
                    KV(IntN("2"), IntN("30"))>>)
RootLinkX == MapN(<<KV(StrN("x"), LinkN("L1"))>>)
RootNested ==
    MapN(<<KV(StrN("a"), MapN(<<KV(StrN("c"), IntN("3")), KV(StrN("d"), LinkN("L2"))>>)),
           KV(StrN("b"), ListN(<<KV(IntN("0"), IntN("5"))>>)),
           KV(StrN("x"), LinkN("L1"))>>)
RootIntKeys ==
    MapN(<<KV(IntN("1"), MapN(<<KV(StrN("y"), StrN("p"))>>)),
           KV(IntN("2"), StrN("q"))>>)
RootFailing == FailingMap(<<KV(StrN("a"), IntN("1")), KV(StrN("b"), IntN("2"))>>, 2)
RootGone == MapN(<<KV(StrN("x"), LinkN("Lgone")), KV(StrN("b"), IntN("2"))>>)
RootCyclic == MapN(<<KV(StrN("next"), LinkN("Lcyc"))>>)
RootUnsorted == MapN(<<KV(StrN("b"), MapN(<<KV(StrN("z"), IntN("1")), KV(StrN("a"), IntN("2"))>>)),
                       KV(StrN("a"), IntN("3"))>>)

RootDeepGone ==
    MapN(<<KV(StrN("a"), MapN(<<KV(StrN("x"), LinkN("Lgone")), KV(StrN("c"), IntN("1"))>>)),
           KV(StrN("b"), IntN("2"))>>)
RootDeepFailing ==
    MapN(<<KV(StrN("a"), FailingMap(<<KV(StrN("c"), IntN("1")), KV(StrN("d"), IntN("2"))>>, 2)),
           KV(StrN("b"), IntN("2"))>>)

Roots ==
    << RootAB, RootList, RootLinkX, RootNested, RootIntKeys, RootFailing, RootGone,
       RootCyclic, RootUnsorted, RootDeepGone, RootDeepFailing, Tree3, MapN(<<>>), ListN(<<>>),
       NullN, BoolN("true"), IntN("4"), FloatN("1.5"), StrN("s"), BytesN("00"),
       LinkN("L1") >>

SelA == ExploreFields(<<Field("a", Matcher)>>)
SelXY == ExploreFields(<<Field("x", ExploreFields(<<Field("y", Matcher)>>))>>)
SelX == ExploreFields(<<Field("x", Matcher)>>)
SelRange == ExploreRange(0, 2, Matcher)
SelTree ==
    ExploreRecursive(2, ExploreUnion(<<Matcher,
        ExploreFields(<<Field("l", ExploreRecursiveEdge), Field("r", ExploreRecursiveEdge)>>)>>))
SelEverything == ExploreRecursive(3, ExploreUnion(<<Matcher, ExploreAll(ExploreRecursiveEdge)>>))
SelUnion ==
    ExploreUnion(<<ExploreFields(<<Field("a", ExploreAll(Matcher))>>),
                   ExploreFields(<<Field("b", Matcher)>>)>>)

Sels ==
    << Matcher, ExploreAll(Matcher), ExploreAll(ExploreAll(Matcher)), SelA, SelXY, SelX,
       SelRange, SelTree, SelEverything, SelUnion >>

(***************************************************************************)
(* State.                                                                  *)
(***************************************************************************)
VARIABLES
    status,     \* "idle", "running", "done", "aborted" or "panicked"
    op,         \* the entry point called
    root,       \* its node argument
    sel,        \* its selector argument
    stack,      \* the frames of traverseInformatively, innermost last
    ret,        \* the error a frame has just returned to its caller
    events,     \* every call made on the visitor, selector, iterator and link
    visitLog,   \* the calls Traverse has made on its VisitFn
    result,     \* the error the entry point returned
    resultNode, \* the node TraverseTransform returned
    panicMsg,   \* the value the goroutine panicked with
    linkCalls,  \* the arguments of every chooser call and every Link.Load call
    w,          \* what the mixin generators have written to their io.Writer
    genCall,    \* the last Emit call made on a mixin generator
    genPanic    \* the value a generator panicked with

vars == <<status, op, root, sel, stack, ret, events, visitLog, result, resultNode, panicMsg,
          linkCalls, w, genCall, genPanic>>

\* The Config a TraversalProgress carries.
Cfg == [Ctx |-> "ctx", LinkLoader |-> "loader", LinkNodeBuilderChooser |-> "chooser"]

Frame(n, s, path, route) ==
    [n |-> n, s |-> s, path |-> path, route |-> route, pc |-> "decide", idx |-> 0,
     cfg |-> Cfg]

Ev(e, path, route, node, s, seg, reason, parent, err) ==
    [e |-> e, path |-> path, route |-> route, node |-> node, sel |-> s, seg |-> seg,
     reason |-> reason, parent |-> parent, err |-> err]

NoRet == [set |-> FALSE, err |-> NoErr]
Returned(err) == [set |-> TRUE, err |-> err]

Top == stack[Len(stack)]
Pop == SubSeq(stack, 1, Len(stack) - 1)
SetTop(f) == [stack EXCEPT ![Len(stack)] = f]

Init ==
    /\ status = "idle"
    /\ op = "none"
    /\ root = NullN
    /\ sel = NilSel
    /\ stack = <<>>
    /\ ret = NoRet
    /\ events = <<>>
    /\ visitLog = <<>>
    /\ result = NoErr
    /\ resultNode = NullN
    /\ panicMsg = ""
    /\ linkCalls = <<>>
    /\ w = {}
    /\ genCall = [by |-> "none", method |-> "", kind |-> "", fwd |-> FALSE]
    /\ genPanic = ""

(***************************************************************************)
(* The decisions of the engine, one operator per condition of the code.    *)
(***************************************************************************)
\* An engine that reports every node it reaches as a match.
Reason_AlwaysMatch(s, n) == "SelectionMatch"

\* The reason the visitor is called with: match iff s.Decide(n).
Reason(s, n) == IF Decide(s, n) THEN "SelectionMatch" ELSE "SelectionCandidate"

\* A wrapper that hands every call on to the VisitFn.
Forwards_Every(tr) == TRUE

\* The closure Traverse wraps its VisitFn in calls it for matches only.
Forwards(tr) == tr = "SelectionMatch"

\* A visitor error ends the frame.
VisitFailed(err) == err # NoErr

\* Only maps and lists go on to the loop.
IsRecursiveKind(nk) == nk \in {"Map", "List"}

\* n.MapIterator(): the entries of a map; nil for every other kind.
MapIterator(n) ==
    IF n.kind = "Map"
    THEN [isNil |-> FALSE, items |-> n.entries]
    ELSE [isNil |-> TRUE, items |-> <<>>]

\* itr.Done()
ItrDone(f) == f.idx >= Len(MapIterator(f.n).items)

\* A loop that takes the pairs of the node in the reverse of its own order.
ItrNext_Resorted(f) ==
    IF f.n.failAt = f.idx + 1
    THEN [k |-> NullN, v |-> NullN, err |-> IterErr]
    ELSE [k |-> MapIterator(f.n).items[Len(MapIterator(f.n).items) - f.idx].k,
          v |-> MapIterator(f.n).items[Len(MapIterator(f.n).items) - f.idx].v, err |-> NoErr]

\* itr.Next(): the pair it yields at this step and its error.
ItrNext(f) ==
    IF f.n.failAt = f.idx + 1
    THEN [k |-> NullN, v |-> NullN, err |-> IterErr]
    ELSE [k |-> MapIterator(f.n).items[f.idx + 1].k,
          v |-> MapIterator(f.n).items[f.idx + 1].v, err |-> NoErr]

\* A loop that wraps the error of the iterator with the path of the frame.
IterError_Wrapped(f, err) ==
    [src |-> "wrapped", msg |-> "at " \o Quote(PathString(f.path)) \o ": " \o err.msg]

\* if err != nil { return err }: the error of itr.Next() is returned as it is.
IterError(f, err) == err

\* The position of a yielded pair in the node's own child order.
PosIn(n, k, v) == CHOOSE j \in 1..Len(n.entries) : n.entries[j] = KV(k, v)

\* kstr, _ := k.AsString()
Kstr(k) == AsString(k)

\* sNext := s.Explore(n, selector.PathSegmentString{kstr})
SNext(s, n, kstr) == Explore(s, n, kstr)

\* A loop that descends whatever Explore returned.
Explored_Always(sNext) == TRUE

\* if sNext != nil
Explored(sNext) == sNext.t # "nil"

\* tpNext.Path = tp.Path.AppendSegment(kstr)
AppendSegment(path, kstr) == Append(path, kstr)

\* A loop that recurses into a link child without loading it.
NeedsLoad_Never(v, sNext) == FALSE

\* if v.ReprKind() == ipld.ReprKind_Link
NeedsLoad(v, sNext) == v.kind = "Link"

\* A loop that hands the container as the link node and the link as the parent.
LinkContext_Swapped(linkPath, v, n) == [LinkPath |-> linkPath, LinkNode |-> n, ParentNode |-> v]

\* The LinkContext assembled for the loader and the builder chooser.
LinkContext(linkPath, v, n) == [LinkPath |-> linkPath, LinkNode |-> v, ParentNode |-> n]

\* A loop that returns the error of the load as it got it.
LoadError_Bare(path, lnk, err) == err

\* lnk.Load(tpNext.Cfg.Ctx, lnkCtx, tpNext.Cfg.LinkNodeBuilderChooser(lnk, lnkCtx),
\*          tpNext.Cfg.LinkLoader): the chooser call and the Load call.
LinkCall(cfg, lnk, lnkCtx) ==
    [chooser |-> [fn |-> cfg.LinkNodeBuilderChooser, lnk |-> lnk, lnkCtx |-> lnkCtx],
     load |-> [lnk |-> lnk, ctx |-> cfg.Ctx, lnkCtx |-> lnkCtx, loader |-> cfg.LinkLoader]]

\* fmt.Errorf("error traversing node at %q: could not load link %q: %s", ...)
LoadError(path, lnk, err) ==
    [src |-> "load",
     msg |-> "error traversing node at " \o Quote(PathString(path))
             \o ": could not load link " \o Quote(lnk) \o ": " \o err.msg]

\* A caller that drops the error of the recursive call.
ChildFailed_Ignored(err) == FALSE

\* if err := tpNext.traverseInformatively(v, sNext, fn); err != nil { return err }
ChildFailed(err) == err # NoErr
ChildError(err) == err

(***************************************************************************)
(* Entry points.                                                           *)
(***************************************************************************)
Enter(name, n, s) ==
    /\ status = "idle"
    /\ status' = "running"
    /\ op' = name
    /\ root' = n
    /\ sel' = s
    /\ stack' = <<Frame(n, s, EmptyPath, <<>>)>>
    /\ UNCHANGED <<ret, events, visitLog, result, resultNode, panicMsg, linkCalls, w, genCall, genPanic>>

Traverse ==
    \E i \in 1..Len(Roots), j \in 1..Len(Sels) : Enter("Traverse", Roots[i], Sels[j])

TraverseInformatively ==
    \E i \in 1..Len(Roots), j \in 1..Len(Sels) :
        Enter("TraverseInformatively", Roots[i], Sels[j])

TraverseTransform ==
    \E i \in 1..Len(Roots), j \in 1..Len(Sels) :
        /\ status = "idle"
        /\ status' = "panicked"
        /\ panicMsg' = "TODO"
        /\ op' = "TraverseTransform"
        /\ root' = Roots[i]
        /\ sel' = Sels[j]
        /\ UNCHANGED <<stack, ret, events, visitLog, result, resultNode, linkCalls, w, genCall, genPanic>>

(***************************************************************************)
(* traverseInformatively, one action per step of the innermost frame.      *)
(***************************************************************************)
Running == status = "running" /\ ~ret.set /\ Len(stack) > 0

\* Decide, then the visitor call; the visitor answers nil or an error.
Visit ==
    /\ Running
    /\ Top.pc = "decide"
    /\ LET f == Top
           tr == Reason(f.s, f.n)
           called == op = "TraverseInformatively" \/ Forwards(tr)
       IN  \E err \in (IF called THEN {NoErr, VisitorErr} ELSE {NoErr}) :
              /\ events' = Append(events,
                     Ev("visit", f.path, f.route, f.n, f.s, "", tr, NullN, err))
              /\ visitLog' = IF op = "Traverse" /\ called
                             THEN Append(visitLog, [path |-> f.path, node |-> f.n])
                             ELSE visitLog
              /\ IF VisitFailed(err)
                 THEN stack' = Pop /\ ret' = Returned(err)
                 ELSE stack' = SetTop([f EXCEPT !.pc = "kind"]) /\ ret' = NoRet
    /\ UNCHANGED <<status, op, root, sel, result, resultNode, panicMsg, linkCalls, w, genCall, genPanic>>

\* The kind switch returns nil for a scalar.
ReturnScalar ==
    /\ Running
    /\ Top.pc = "kind"
    /\ ~IsRecursiveKind(Top.n.kind)
    /\ stack' = Pop
    /\ ret' = Returned(NoErr)
    /\ UNCHANGED <<status, op, root, sel, events, visitLog, result, resultNode, panicMsg, linkCalls, w, genCall, genPanic>>

\* for itr := n.MapIterator(); ...
EnterLoop ==
    /\ Running
    /\ Top.pc = "kind"
    /\ IsRecursiveKind(Top.n.kind)
    /\ ~MapIterator(Top.n).isNil
    /\ stack' = SetTop([Top EXCEPT !.pc = "loop", !.idx = 0])
    /\ UNCHANGED <<status, op, root, sel, ret, events, visitLog, result, resultNode, panicMsg, linkCalls, w, genCall, genPanic>>

\* ... !itr.Done() on the nil iterator of a node that is not a map.
NilIteratorPanic ==
    /\ Running
    /\ Top.pc = "kind"
    /\ IsRecursiveKind(Top.n.kind)
    /\ MapIterator(Top.n).isNil
    /\ status' = "panicked"
    /\ panicMsg' = "invalid memory address or nil pointer dereference"
    /\ UNCHANGED <<op, root, sel, stack, ret, events, visitLog, result, resultNode, linkCalls, w, genCall, genPanic>>

\* The loop ends and the frame returns nil.
LoopDone ==
    /\ Running
    /\ Top.pc = "loop"
    /\ ItrDone(Top)
    /\ stack' = Pop
    /\ ret' = Returned(NoErr)
    /\ UNCHANGED <<status, op, root, sel, events, visitLog, result, resultNode, panicMsg, linkCalls, w, genCall, genPanic>>

\* itr.Next() fails and the frame returns its error.
NextError ==
    /\ Running
    /\ Top.pc = "loop"
    /\ ~ItrDone(Top)
    /\ ItrNext(Top).err # NoErr
    /\ events' = Append(events,
           Ev("next", Top.path, Top.route, Top.n, Top.s, "", "", NullN, ItrNext(Top).err))
    /\ stack' = Pop
    /\ ret' = Returned(IterError(Top, ItrNext(Top).err))
    /\ UNCHANGED <<status, op, root, sel, visitLog, result, resultNode, panicMsg, linkCalls, w, genCall, genPanic>>

NextEv(f) == Ev("next", f.path, f.route, f.n, f.s, "", "", NullN, NoErr)
ExploreEv(f, y, sNext) ==
    Ev("explore", f.path, Append(f.route, PosIn(f.n, y.k, y.v)), y.v, sNext,
       Kstr(y.k), "", f.n, NoErr)

\* The selector does not explore the child: on to the next pair.
ExploreSkip ==
    /\ Running
    /\ Top.pc = "loop"
    /\ ~ItrDone(Top)
    /\ ItrNext(Top).err = NoErr
    /\ LET f == Top
           y == ItrNext(f)
           sNext == SNext(f.s, f.n, Kstr(y.k))
       IN  /\ ~Explored(sNext)
           /\ events' = events \o <<NextEv(f), ExploreEv(f, y, sNext)>>
           /\ stack' = SetTop([f EXCEPT !.idx = f.idx + 1])
    /\ UNCHANGED <<status, op, root, sel, ret, visitLog, result, resultNode, panicMsg, linkCalls, w, genCall, genPanic>>

\* The selector explores a child that needs no load: recurse into it.
Descend ==
    /\ Running
    /\ Top.pc = "loop"
    /\ ~ItrDone(Top)
    /\ ItrNext(Top).err = NoErr
    /\ Len(stack) < MaxDepth
    /\ LET f == Top
           y == ItrNext(f)
           sNext == SNext(f.s, f.n, Kstr(y.k))
       IN  /\ Explored(sNext)
           /\ ~NeedsLoad(y.v, sNext)
           /\ events' = events \o <<NextEv(f), ExploreEv(f, y, sNext)>>
           /\ stack' = SetTop([f EXCEPT !.idx = f.idx + 1, !.pc = "call"])
                       \o <<[Frame(y.v, sNext, AppendSegment(f.path, Kstr(y.k)),
                                   Append(f.route, PosIn(f.n, y.k, y.v)))
                             EXCEPT !.cfg = f.cfg]>>
    /\ UNCHANGED <<status, op, root, sel, ret, visitLog, result, resultNode, panicMsg, linkCalls, w, genCall, genPanic>>

\* The selector explores a link: load it, then recurse into what it loaded,
\* or return the wrapped error of the load.
LoadLink ==
    /\ Running
    /\ Top.pc = "loop"
    /\ ~ItrDone(Top)
    /\ ItrNext(Top).err = NoErr
    /\ Len(stack) < MaxDepth
    /\ LET f == Top
           y == ItrNext(f)
           sNext == SNext(f.s, f.n, Kstr(y.k))
           tpNextPath == AppendSegment(f.path, Kstr(y.k))
           lnkCtx == LinkContext(tpNextPath, y.v, f.n)
           loaded == Load(y.v.val)
           route == Append(f.route, PosIn(f.n, y.k, y.v))
       IN  /\ Explored(sNext)
           /\ NeedsLoad(y.v, sNext)
           /\ events' = events \o
                  <<NextEv(f), ExploreEv(f, y, sNext),
                    Ev("load", lnkCtx.LinkPath, route, lnkCtx.LinkNode, sNext, y.v.val, "",
                       lnkCtx.ParentNode, loaded.err)>>
           /\ linkCalls' = Append(linkCalls, LinkCall(f.cfg, y.v.val, lnkCtx))
           /\ IF loaded.err # NoErr
              THEN /\ stack' = Pop
                   /\ ret' = Returned(LoadError(tpNextPath, y.v.val, loaded.err))
              ELSE /\ stack' = SetTop([f EXCEPT !.idx = f.idx + 1, !.pc = "call"])
                               \o <<[Frame(loaded.node, sNext, tpNextPath, route)
                                      EXCEPT !.cfg = f.cfg]>>
                   /\ ret' = NoRet
    /\ UNCHANGED <<status, op, root, sel, visitLog, result, resultNode, panicMsg, w, genCall, genPanic>>

\* The recursive call returned: its error is returned as it is, nil resumes
\* the loop.
Resume ==
    /\ status = "running"
    /\ ret.set
    /\ Len(stack) > 0
    /\ Top.pc = "call"
    /\ IF ChildFailed(ret.err)
       THEN stack' = Pop /\ ret' = Returned(ChildError(ret.err))
       ELSE stack' = SetTop([Top EXCEPT !.pc = "loop"]) /\ ret' = NoRet
    /\ UNCHANGED <<status, op, root, sel, events, visitLog, result, resultNode, panicMsg, linkCalls, w, genCall, genPanic>>

\* The outermost frame returned: the entry point returns its error.
Finish ==
    /\ status = "running"
    /\ ret.set
    /\ Len(stack) = 0
    /\ status' = IF ret.err = NoErr THEN "done" ELSE "aborted"
    /\ result' = ret.err
    /\ ret' = NoRet
    /\ UNCHANGED <<op, root, sel, stack, events, visitLog, resultNode, panicMsg, linkCalls, w, genCall, genPanic>>

Next ==
    \/ Traverse
    \/ TraverseInformatively
    \/ TraverseTransform
    \/ Visit
    \/ ReturnScalar
    \/ EnterLoop
    \/ NilIteratorPanic
    \/ LoopDone
    \/ NextError
    \/ ExploreSkip
    \/ Descend
    \/ LoadLink
    \/ Resume
    \/ Finish

Spec == Init /\ [][Next]_vars

TypeOK ==
    /\ status \in {"idle", "running", "done", "aborted", "panicked"}
    /\ Len(stack) <= MaxDepth

(***************************************************************************)
(* Vocabulary of the properties.                                           *)
(***************************************************************************)
Visits == {i \in 1..Len(events) : events[i].e = "visit"}
Loads == {i \in 1..Len(events) : events[i].e = "load"}
Explores == {i \in 1..Len(events) : events[i].e = "explore"}
Returned2Caller == status \in {"done", "aborted", "panicked"}
VisitorFailed == \E i \in Visits : events[i].err # NoErr
IsMatchVisit(ev) == ev.e = "visit" /\ ev.reason = "SelectionMatch"
PathAndNode(evs) == [i \in 1..Len(evs) |-> [path |-> evs[i].path, node |-> evs[i].node]]
MatchVisits == SelectSeq(events, IsMatchVisit)

\* a comes before b in depth-first pre-order of child positions
PreOrderBefore(a, b) ==
    \/ Len(a) < Len(b) /\ SubSeq(b, 1, Len(a)) = a
    \/ \E i \in 1..Len(a) :
          /\ i <= Len(b)
          /\ SubSeq(a, 1, i - 1) = SubSeq(b, 1, i - 1)
          /\ a[i] < b[i]

\* The node a link stands for on a route.
Target(n) == IF n.kind = "Link" THEN Load(n.val).node ELSE n

\* Repeated lookup of the segments of p from n, through loaded links.
RECURSIVE Resolve(_, _)
Resolve(n, p) ==
    IF Len(p) = 0 THEN [ok |-> TRUE, node |-> n]
    ELSE LET m == Target(n)
             hit == {j \in 1..Len(m.entries) : KeyText(m.entries[j].k) = p[1]}
         IN  IF hit = {} THEN [ok |-> FALSE, node |-> NullN]
             ELSE Resolve(m.entries[CHOOSE j \in hit : TRUE].v, Tail(p))

\* The segments of the children taken along a route of child positions.
RECURSIVE RoutePath(_, _)
RoutePath(n, r) ==
    IF Len(r) = 0 THEN <<>>
    ELSE LET m == Target(n)
         IN  <<KeyText(m.entries[r[1]].k)>> \o RoutePath(m.entries[r[1]].v, Tail(r))

(***************************************************************************)
(* C1. Lazy loading: a link is loaded only right after selector.Explore    *)
(* returned a sub-selector for that very child, and a child for which      *)
(* Explore returned nil is never loaded.                                   *)
(***************************************************************************)
C1_LazyLoading ==
    /\ \A i \in Loads :
          /\ i > 1
          /\ events[i - 1].e = "explore"
          /\ events[i - 1].route = events[i].route
          /\ events[i - 1].sel.t # "nil"
    /\ \A i \in Explores : \A j \in Loads :
          events[i].sel.t = "nil" => events[j].route # events[i].route

C1_Witness ==
    /\ status = "done"
    /\ \E i \in Explores : events[i].node.kind = "Link" /\ events[i].sel.t = "nil"
    /\ \E j \in Loads : events[j].err = NoErr

(***************************************************************************)
(* C2. A link child whose sub-selector is a plain Matcher is not loaded,   *)
(* and the match at its path is reported on the link node itself.          *)
(***************************************************************************)
C2_MatcherOnLinkNotLoaded ==
    /\ \A i \in Loads : events[i].sel.t # "Matcher"
    /\ \A i \in Explores : \A j \in Visits :
          (/\ events[i].node.kind = "Link"
           /\ events[i].sel.t = "Matcher"
           /\ events[j].route = events[i].route)
          => events[j].node = events[i].node

(***************************************************************************)
(* C3. A list is traversed like a map: the traversal of a list completes   *)
(* normally, and root [10,20,30] with ExploreRange(0,2,Matcher) yields     *)
(* the matches ("0",10) and ("1",20) and nothing else.                     *)
(***************************************************************************)
C3_ListsTraversed ==
    /\ op \in {"Traverse", "TraverseInformatively"} => status # "panicked"
    /\ (/\ op \in {"Traverse", "TraverseInformatively"}
        /\ root = RootList
        /\ sel = SelRange
        /\ Returned2Caller
        /\ ~VisitorFailed)
       => /\ status = "done"
          /\ PathAndNode(MatchVisits) =
                << [path |-> <<"0">>, node |-> IntN("10")],
                   [path |-> <<"1">>, node |-> IntN("20")] >>

(***************************************************************************)
(* C4. Traverse with a Matcher calls the visitor once, at the empty path   *)
(* with the root, and returns nil, whatever the kind of the root.          *)
(***************************************************************************)
C4_MatcherVisitsRootOnce ==
    (/\ op = "Traverse"
     /\ sel = Matcher
     /\ root.failAt = 0
     /\ Returned2Caller
     /\ ~VisitorFailed)
    => /\ status = "done"
       /\ result = NoErr
       /\ visitLog = << [path |-> EmptyPath, node |-> root] >>

(***************************************************************************)
(* C5. The VisitFn of Traverse sees exactly the SelectionMatch calls of    *)
(* traverseInformatively, in their order, and every one of them is on a    *)
(* node the selector decides for.                                          *)
(***************************************************************************)
C5_PlainVisitorOnlyOnMatches ==
    op = "Traverse" =>
        /\ visitLog = PathAndNode(MatchVisits)
        /\ \A i \in Visits :
              events[i].reason = "SelectionMatch" <=> Decide(events[i].sel, events[i].node)

C5_Witness ==
    /\ op = "Traverse"
    /\ status = "done"
    /\ Len(visitLog) >= 2
    /\ \E i \in Visits : events[i].reason = "SelectionCandidate"

(***************************************************************************)
(* C6. A visitor error is terminal: the failing visitor call is the last   *)
(* call the engine makes on any collaborator, and the entry point returns  *)
(* that very error.                                                        *)
(***************************************************************************)
C6_VisitorErrorTerminal ==
    \A i \in Visits :
        events[i].err # NoErr =>
            /\ i = Len(events)
            /\ Returned2Caller => (status = "aborted" /\ result = events[i].err)

C6_Witness ==
    /\ status = "aborted"
    /\ result = VisitorErr
    /\ Len(events[Len(events)].route) >= 2
    /\ events[Len(events)].e = "visit"

(***************************************************************************)
(* C7. TraverseTransform with the identity transform returns normally      *)
(* with a node equal to the root.                                          *)
(***************************************************************************)
C7_TransformIdentity ==
    (op = "TraverseTransform" /\ Returned2Caller)
    => (status = "done" /\ resultNode = root)

(***************************************************************************)
(* C8. Path fidelity: the path a visitor is called with is the sequence    *)
(* of the segments of the children taken from the root, and looking these  *)
(* segments up from the root, through loaded links, gives the visited node.*)
(***************************************************************************)
C8_PathFidelity ==
    \A i \in Visits :
        LET ev == events[i]
            r == Resolve(root, ev.path)
        IN  /\ ev.path = RoutePath(root, ev.route)
            /\ r.ok
            /\ ev.node \in {r.node, Target(r.node)}

(***************************************************************************)
(* C9. Visits happen in depth-first pre-order of the nodes' own child      *)
(* order: of two visits the earlier one is at the position that comes      *)
(* first in pre-order.                                                     *)
(***************************************************************************)
C9_PreOrder ==
    \A i \in Visits : \A j \in Visits :
        i < j => PreOrderBefore(events[i].route, events[j].route)

C9_Witness ==
    /\ status = "done"
    /\ root = RootUnsorted
    /\ \E i \in Visits : \E j \in Visits :
          /\ i < j
          /\ events[i].path = <<"b", "a">>
          /\ events[j].path = <<"a">>

(***************************************************************************)
(* C10. The visitor is called at most once per (path, reason) pair, and    *)
(* every node reached gets one call whose reason is SelectionMatch iff     *)
(* the selector decides for the node.                                      *)
(***************************************************************************)
C10_OncePerPathAndReason ==
    /\ \A i \in Visits : \A j \in Visits :
          (i # j /\ events[i].path = events[j].path)
          => events[i].reason # events[j].reason
    /\ \A i \in Visits :
          events[i].reason = IF Decide(events[i].sel, events[i].node)
                             THEN "SelectionMatch" ELSE "SelectionCandidate"

\* a is b or an ancestor position of b
IsPrefix(a, b) == Len(a) <= Len(b) /\ SubSeq(b, 1, Len(a)) = a

(***************************************************************************)
(* C11. The node of a frame is never a raw link: Decide and the visitor    *)
(* never get a node of kind Link, in the root frame or any other.          *)
(***************************************************************************)
C11_NoRawLinkFrame ==
    \A i \in Visits : events[i].node.kind # "Link"

(***************************************************************************)
(* C12. A link child the selector explores is loaded exactly once, the     *)
(* load comes before every visitor call at the child's position or below   *)
(* it, and the node visited there is the node the load returned.           *)
(***************************************************************************)
C12_LoadedOnceBeforeVisit ==
    \A i \in Explores :
        (events[i].node.kind = "Link" /\ events[i].sel.t # "nil") =>
            /\ Cardinality({j \in Loads : events[j].route = events[i].route}) = 1
            /\ i + 1 \in Loads
            /\ events[i + 1].route = events[i].route
            /\ events[i + 1].seg = events[i].node.val
            /\ \A v \in Visits :
                  IsPrefix(events[i].route, events[v].route) => v > i + 1
            /\ \A v \in Visits :
                  events[v].route = events[i].route =>
                      /\ events[i + 1].err = NoErr
                      /\ events[v].node = Load(events[i].node.val).node

C12_Witness ==
    /\ status = "done"
    /\ \E j \in Loads : \E v \in Visits : \E u \in Visits :
          /\ events[j].err = NoErr
          /\ events[v].route = events[j].route
          /\ events[v].node.kind = "Map"
          /\ IsPrefix(events[j].route, events[u].route)
          /\ Len(events[u].route) > Len(events[j].route)

FailedLoads == {j \in Loads : events[j].err # NoErr}

\* A failed load is the last call the engine makes, and nothing is visited at
\* the position of the link.
LoadFailureAborts(j) ==
    /\ j = Len(events)
    /\ \A v \in Visits : events[v].route # events[j].route
    /\ Returned2Caller => status = "aborted"

(***************************************************************************)
(* C13 as stated. A failed link load aborts the traversal and the entry    *)
(* point returns "traversing node at <path>: could not load link <link>:   *)
(* <cause>".                                                               *)
(***************************************************************************)
C13_LoadFailureMessage ==
    \A j \in FailedLoads :
        /\ LoadFailureAborts(j)
        /\ Returned2Caller =>
              result.msg = "traversing node at " \o PathString(events[j].path)
                           \o ": could not load link " \o events[j].seg
                           \o ": " \o events[j].err.msg

(***************************************************************************)
(* C13 as amended. A failed link load aborts the traversal: no visitor     *)
(* call at the link's position, no later call on any collaborator, and     *)
(* the entry point returns a new error with the message                    *)
(* error traversing node at "<path>": could not load link "<link>":        *)
(* <cause>, the path being the one built for the child.                   *)
(***************************************************************************)
C13_LoadFailureAborts ==
    \A j \in FailedLoads :
        /\ LoadFailureAborts(j)
        /\ Returned2Caller =>
              /\ result.src = "load"
              /\ result.msg = "error traversing node at "
                              \o Quote(PathString(events[j].path))
                              \o ": could not load link " \o Quote(events[j].node.val)
                              \o ": " \o events[j].err.msg

C13_Witness ==
    /\ status = "aborted"
    /\ root = RootDeepGone
    /\ result.msg = "error traversing node at \"a/x\": could not load link \"Lgone\": block not found"
    /\ \E v \in Visits : events[v].path = <<"a">>

FailedSteps == {i \in 1..Len(events) : events[i].e = "next" /\ events[i].err # NoErr}

(***************************************************************************)
(* C14. An iterator step that fails ends the traversal with its error:     *)
(* the failing step is the last call the engine makes on any collaborator  *)
(* (the visits made before it stay in the log), and the entry point        *)
(* returns the error of the step.                                          *)
(***************************************************************************)
C14_IteratorErrorTerminal ==
    \A i \in FailedSteps :
        /\ i = Len(events)
        /\ Returned2Caller => (status = "aborted" /\ result = events[i].err)

C14_Witness ==
    /\ status = "aborted"
    /\ root = RootDeepFailing
    /\ result = IterErr
    /\ FailedSteps # {}
    /\ \E v \in Visits : events[v].path = <<"a", "c">>

(***************************************************************************)
(* C15. When the selector of a frame declares a finite list of interests,  *)
(* the loop steps to and calls Explore for those segments only.            *)
(***************************************************************************)
C15_OnlyInterestsConsulted ==
    \A i \in Explores :
        /\ i > 1
        /\ events[i - 1].e = "next"
        /\ Interests(events[i - 1].sel).finite =>
              events[i].seg \in Interests(events[i - 1].sel).segs

(***************************************************************************)
(* C16 as stated. A visitor call with reason SelectionCandidate is always  *)
(* on a Map or a List: a scalar the selector does not decide for gets no   *)
(* call.                                                                   *)
(***************************************************************************)
C16_CandidateOnlyOnRecursive ==
    \A v \in Visits :
        events[v].reason = "SelectionCandidate" => events[v].node.kind \in {"Map", "List"}

(***************************************************************************)
(* C16 as amended. In TraverseInformatively a visitor call has the reason  *)
(* SelectionCandidate exactly when the selector does not decide for its    *)
(* node, whatever the kind of the node, and every child the engine         *)
(* recurses into, scalars included, gets its call first thing.             *)
(***************************************************************************)
C16_CandidateWhereNotDecided ==
    op = "TraverseInformatively" =>
        /\ \A v \in Visits :
              events[v].reason = "SelectionCandidate"
                  <=> ~Decide(events[v].sel, events[v].node)
        /\ \A i \in Explores :
              (events[i].sel.t # "nil" /\ events[i].node.kind # "Link" /\ i < Len(events)) =>
                  /\ i + 1 \in Visits
                  /\ events[i + 1].route = events[i].route
                  /\ events[i + 1].node = events[i].node
                  /\ events[i + 1].sel = events[i].sel

C16_Witness ==
    /\ op = "TraverseInformatively"
    /\ status = "done"
    /\ \E v \in Visits :
          /\ events[v].reason = "SelectionCandidate"
          /\ events[v].node.kind = "Int"
          /\ ~Decide(events[v].sel, events[v].node)

\* The positions of a uniform binary tree down to a depth.
RECURSIVE BinaryRoutes(_)
BinaryRoutes(depth) ==
    IF depth = 0 THEN {<<>>}
    ELSE BinaryRoutes(depth - 1)
         \cup {Append(r, c) : r \in {q \in BinaryRoutes(depth - 1) : Len(q) = depth - 1},
                              c \in {1, 2}}

(***************************************************************************)
(* C17. Recursion limit: under ExploreRecursive(k, seq) no node deeper     *)
(* than k is visited, and over the binary tree of depth 3, with seq        *)
(* putting an edge under every child, exactly the nodes of depths 0..k     *)
(* are visited, 2^(k+1) - 1 of them (7 for k = 2).                         *)
(***************************************************************************)
C17_RecursionLimit ==
    /\ sel.t = "ExploreRecursive" =>
          \A v \in Visits : Len(events[v].route) <= sel.limit
    /\ (root = Tree3 /\ sel \in {SelTree, SelEverything} /\ status = "done") =>
          /\ Cardinality(Visits) = 2 ^ (sel.limit + 1) - 1
          /\ {events[v].route : v \in Visits} = BinaryRoutes(sel.limit)
          /\ \A v \in Visits : events[v].reason = "SelectionMatch"

C17_Witness ==
    /\ op = "Traverse"
    /\ root = Tree3
    /\ sel = SelTree
    /\ status = "done"
    /\ Len(visitLog) = 7

\* The place in the log of the k-th Link.Load.
LoadIdx(k) == CHOOSE j \in Loads : Cardinality({i \in Loads : i <= j}) = k

(***************************************************************************)
(* C18. For every link load the LinkContext given to the chooser and to    *)
(* Link.Load has LinkPath = the frame's path plus the child's segment,     *)
(* LinkNode = the link child and ParentNode = the container; the chooser   *)
(* gets the same link and context, and the load gets Ctx and LinkLoader    *)
(* of the Config.                                                          *)
(***************************************************************************)
C18_LinkContext ==
    /\ Len(linkCalls) = Cardinality(Loads)
    /\ \A k \in 1..Len(linkCalls) :
          LET c == linkCalls[k]
              ex == events[LoadIdx(k) - 1]
              nx == events[LoadIdx(k) - 2]
          IN  /\ ex.e = "explore" /\ nx.e = "next"
              /\ c.load.lnkCtx.LinkPath = Append(nx.path, ex.seg)
              /\ c.load.lnkCtx.LinkPath # nx.path
              /\ c.load.lnkCtx.LinkNode = ex.node
              /\ c.load.lnkCtx.LinkNode.kind = "Link"
              /\ c.load.lnkCtx.LinkNode.val = c.load.lnk
              /\ c.load.lnkCtx.ParentNode = nx.node
              /\ c.chooser.lnk = c.load.lnk
              /\ c.chooser.lnkCtx = c.load.lnkCtx
              /\ c.chooser.fn = Cfg.LinkNodeBuilderChooser
              /\ c.load.ctx = Cfg.Ctx
              /\ c.load.loader = Cfg.LinkLoader

C18_Witness ==
    /\ op = "TraverseInformatively"
    /\ \E k \in 1..Len(linkCalls) :
          /\ linkCalls[k].load.lnkCtx.LinkPath = <<"a", "d">>
          /\ linkCalls[k].load.lnkCtx.LinkNode = LinkN("L2")
          /\ linkCalls[k].load.lnkCtx.ParentNode.kind = "Map"
          /\ linkCalls[k].load.lnkCtx.ParentNode # root

(***************************************************************************)
(* The mixin generators of schema/gen/go/mixins.                           *)
(***************************************************************************)
\* Most methods one generator run may emit in the model.
MaxEmits == 1

Kinds == {"Map", "List", "Null", "Bool", "Int", "Float", "String", "Bytes", "Link"}

NodeMethods ==
    {"LookupString", "Lookup", "LookupIndex", "LookupSegment", "MapIterator", "ListIterator",
     "Length", "IsUndefined", "IsNull", "AsBool", "AsInt", "AsFloat", "AsString", "AsBytes",
     "AsLink"}

AssemblerMethods ==
    {"BeginMap", "BeginList", "AssignNull", "AssignBool", "AssignInt", "AssignFloat",
     "AssignString", "AssignBytes", "AssignLink", "Style"}

\* The kinds a method of ipld.Node or ipld.NodeAssembler is specific to:
\* the kind whose nodes answer it with a value rather than a wrong-kind error.
\* IsUndefined, IsNull and Style are answered the same way by every kind.
Applies(method) ==
    CASE method \in {"LookupString", "Lookup", "MapIterator", "BeginMap"} -> {"Map"}
      [] method \in {"LookupIndex", "ListIterator", "BeginList"} -> {"List"}
      [] method \in {"LookupSegment", "Length"} -> {"Map", "List"}
      [] method = "AssignNull" -> {"Null"}
      [] method \in {"AsBool", "AssignBool"} -> {"Bool"}
      [] method \in {"AsInt", "AssignInt"} -> {"Int"}
      [] method \in {"AsFloat", "AssignFloat"} -> {"Float"}
      [] method \in {"AsString", "AssignString"} -> {"String"}
      [] method \in {"AsBytes", "AssignBytes"} -> {"Bytes"}
      [] method \in {"AsLink", "AssignLink"} -> {"Link"}
      [] OTHER -> {}

GenPanicMsg == "gen internals error: you should've overriden this"

\* An emitter whose LookupSegment guard forgets the lists.
Guard_SegmentMapOnly(method) ==
    CASE method \in {"LookupString", "Lookup", "MapIterator", "BeginMap", "LookupSegment"} -> {"Map"}
      [] method \in {"LookupIndex", "ListIterator", "BeginList"} -> {"List"}
      [] method = "Length" -> {"Map", "List"}
      [] method = "AssignNull" -> {"Null"}
      [] method \in {"AsBool", "AssignBool"} -> {"Bool"}
      [] method \in {"AsInt", "AssignInt"} -> {"Int"}
      [] method \in {"AsFloat", "AssignFloat"} -> {"Float"}
      [] method \in {"AsString", "AssignString"} -> {"String"}
      [] method \in {"AsBytes", "AssignBytes"} -> {"Bytes"}
      [] method \in {"AsLink", "AssignLink"} -> {"Link"}
      [] OTHER -> {}

\* The ReprKindSet an emitter tests g.Kind against before it writes; the
\* emitters of IsUndefined, IsNull and Style test nothing.
Guard(method) ==
    CASE method = "LookupString" -> {"Map"}
      [] method = "Lookup" -> {"Map"}
      [] method = "LookupIndex" -> {"List"}
      [] method = "LookupSegment" -> {"Map", "List"}
      [] method = "MapIterator" -> {"Map"}
      [] method = "ListIterator" -> {"List"}
      [] method = "Length" -> {"Map", "List"}
      [] method = "IsUndefined" -> {}
      [] method = "IsNull" -> {}
      [] method = "AsBool" -> {"Bool"}
      [] method = "AsInt" -> {"Int"}
      [] method = "AsFloat" -> {"Float"}
      [] method = "AsString" -> {"String"}
      [] method = "AsBytes" -> {"Bytes"}
      [] method = "AsLink" -> {"Link"}
      [] method = "BeginMap" -> {"Map"}
      [] method = "BeginList" -> {"List"}
      [] method = "AssignNull" -> {"Null"}
      [] method = "AssignBool" -> {"Bool"}
      [] method = "AssignInt" -> {"Int"}
      [] method = "AssignFloat" -> {"Float"}
      [] method = "AssignString" -> {"String"}
      [] method = "AssignBytes" -> {"Bytes"}
      [] method = "AssignLink" -> {"Link"}
      [] OTHER -> {}

\* A MapTraits that also forwards LookupString.
MapTraitsForwards_LookupString ==
    {"LookupString", "LookupIndex", "ListIterator", "IsUndefined", "IsNull", "AsBool", "AsInt",
     "AsFloat", "AsString", "AsBytes", "AsLink"}

\* The exported methods of MapTraits that call the kindTraitsGenerator emitter
\* of the same name with Kind = Map.
MapTraitsForwards ==
    {"LookupIndex", "ListIterator", "IsUndefined", "IsNull", "AsBool", "AsInt", "AsFloat",
     "AsString", "AsBytes", "AsLink"}

\* The exported methods of MapTraits with a template of their own.
MapTraitsOwn == {"ReprKind", "LookupSegment"}

\* The exported methods of MapAssemblerTraits; all of them forward.
MapAssemblerTraitsForwards ==
    {"BeginList", "AssignNull", "AssignBool", "AssignInt", "AssignFloat", "AssignString",
     "AssignBytes", "AssignLink", "Style"}

\* What a call writes: a dummy body (that of mixins.<Kind>) or a real one.
Emitted(by, method, kind, dummy) == [by |-> by, method |-> method, kind |-> kind, dummy |-> dummy]
GenCall(by, method, kind, fwd) == [by |-> by, method |-> method, kind |-> kind, fwd |-> fwd]

tvars == <<status, op, root, sel, stack, ret, events, visitLog, result, resultNode, panicMsg,
           linkCalls>>

GenReady == genPanic = "" /\ Cardinality(w) < MaxEmits

\* An emitter of kindTraitsGenerator or kindAssemblerTraitsGenerator, called
\* by the mixin `by` with g.Kind = kind: panic, or the dummy method.
KindEmit(by, method, kind) ==
    /\ genCall' = GenCall(by, method, kind, TRUE)
    /\ IF kind \in Guard(method)
       THEN genPanic' = GenPanicMsg /\ w' = w
       ELSE genPanic' = genPanic /\ w' = w \cup {Emitted(by, method, kind, TRUE)}

\* One of the emitters of kindTraitsGenerator, for a generator of any kind.
KindTraitsEmit ==
    /\ GenReady
    /\ \E method \in NodeMethods, kind \in Kinds : KindEmit("kindTraitsGenerator", method, kind)
    /\ UNCHANGED tvars

\* One of the emitters of kindAssemblerTraitsGenerator, for any kind.
KindAssemblerTraitsEmit ==
    /\ GenReady
    /\ \E method \in AssemblerMethods, kind \in Kinds :
          KindEmit("kindAssemblerTraitsGenerator", method, kind)
    /\ UNCHANGED tvars

\* One of the exported Emit methods of MapTraits.
MapTraitsEmit ==
    /\ GenReady
    /\ \/ \E method \in MapTraitsForwards : KindEmit("MapTraits", method, "Map")
       \/ \E method \in MapTraitsOwn :
             /\ genCall' = GenCall("MapTraits", method, "Map", FALSE)
             /\ w' = w \cup {Emitted("MapTraits", method, "Map", FALSE)}
             /\ genPanic' = genPanic
    /\ UNCHANGED tvars

\* One of the exported Emit methods of MapAssemblerTraits.
MapAssemblerTraitsEmit ==
    /\ GenReady
    /\ \E method \in MapAssemblerTraitsForwards : KindEmit("MapAssemblerTraits", method, "Map")
    /\ UNCHANGED tvars

GenNext ==
    \/ KindTraitsEmit
    \/ KindAssemblerTraitsEmit
    \/ MapTraitsEmit
    \/ MapAssemblerTraitsEmit

GenSpec == Init /\ [][GenNext]_vars

(***************************************************************************)
(* C19. An emitter of kindTraitsGenerator or kindAssemblerTraitsGenerator  *)
(* panics exactly when the method it emits applies to the generator's      *)
(* Kind; no exported Emit method of MapTraits or MapAssemblerTraits        *)
(* panics, and none writes a dummy LookupString, Lookup, MapIterator,      *)
(* Length or BeginMap.                                                     *)
(***************************************************************************)
C19_MixinPanics ==
    /\ genCall.fwd =>
          (genPanic = GenPanicMsg <=> genCall.kind \in Applies(genCall.method))
    /\ genCall.by \in {"MapTraits", "MapAssemblerTraits"} => genPanic = ""
    /\ \A e \in w :
          /\ e.dummy => e.kind \notin Applies(e.method)
          /\ e.by \in {"MapTraits", "MapAssemblerTraits"} =>
                ~(e.dummy /\ e.method \in {"LookupString", "Lookup", "MapIterator", "Length",
                                           "BeginMap"})

C19_Witness ==
    /\ genCall = GenCall("MapAssemblerTraits", "BeginList", "Map", TRUE)
    /\ genPanic = ""
    /\ Emitted("MapAssemblerTraits", "BeginList", "Map", TRUE) \in w

(***************************************************************************)
(* Termination.  A call that has begun runs on: each step of the walk is   *)
(* taken once it can be.                                                   *)
(***************************************************************************)
FairSpec == Spec /\ WF_vars(Next)

\* The walk is one of the two implemented entry points, over data whose
\* links do not lead back to themselves.
AcyclicWalk ==
    /\ status = "running"
    /\ op \in {"Traverse", "TraverseInformatively"}
    /\ root # RootCyclic

(***************************************************************************)
(* C20. Over a finite graph with acyclic links, every traversal ends in    *)
(* Done (nil error) or in Aborted (the first error), whatever the          *)
(* selector.                                                               *)
(***************************************************************************)
C20_Termination == AcyclicWalk ~> (status \in {"done", "aborted"})

====
